---- MODULE Spec2Model ----
(***************************************************************************)
(* The task store of src/taskManager.js (class TaskManager): an in-memory  *)
(* list of task records and one localStorage entry, "tasks", holding the   *)
(* JSON text of the list.  Every public method of the class is one action. *)
(* SpecUI drives the store through the handlers of class TaskManagerUI,    *)
(* each split at its await into the call and its continuation.             *)
(* src/unnamed/part_000 holds an earlier version of the same class; where  *)
(* the two differ the model follows src/taskManager.js.                    *)
(*                                                                         *)
(* Representation of JavaScript values:                                    *)
(*   - a string is a sequence of one-character strings, <<"a", " ">>;      *)
(*   - the value undefined in a string position is the sequence undefined; *)
(*   - a priority is one of the strings of Priorities;                     *)
(*   - Date.now() is the integer clock now; toISOString formats it;        *)
(*   - a thrown Error is its message;                                      *)
(*   - a value of this.tasks that is not an array (null, a number, an      *)
(*     object) is the one-element sequence NotArray(kind).                 *)
(***************************************************************************)
EXTENDS Integers, Sequences, FiniteSets, TLC

\* Bounds of the model.
MaxTasks == 2
MaxTime == 2
MaxWriteFailures == 1
MaxPending == 2

VARIABLES
    tasks,      \* this.tasks
    blob,       \* the localStorage entry "tasks"
    now,        \* the millisecond clock read by Date.now() and new Date()
    failures,   \* how many localStorage.setItem calls have thrown so far
    last,       \* the last call made on the store and its outcome
    pending,    \* the handler calls that wait at their await, oldest first
    rendered    \* the data-id of the task elements in the task list element

vars == <<tasks, blob, now, failures, last, pending, rendered>>

----------------------------------------------------------------------------
\* JavaScript strings.

undefined == <<"undefined">>

WhiteSpace == {" "}

RECURSIVE trimStart(_)
trimStart(s) ==
    IF s # <<>> /\ Head(s) \in WhiteSpace THEN trimStart(Tail(s)) ELSE s

RECURSIVE trimEnd(_)
trimEnd(s) ==
    IF s # <<>> /\ s[Len(s)] \in WhiteSpace
    THEN trimEnd(SubSeq(s, 1, Len(s) - 1))
    ELSE s

\* trim that strips the leading white space only (the slip of calling trimStart)
trimLeadingOnly(s) == trimStart(s)

\* String.prototype.trim
trim(s) == trimEnd(trimStart(s))

lowerChar(c) ==
    IF c = "A" THEN "a" ELSE IF c = "B" THEN "b" ELSE c

\* String.prototype.toLowerCase
toLowerCase(s) == [i \in 1..Len(s) |-> lowerChar(s[i])]

\* String.prototype.includes
includes(s, t) ==
    \E i \in 0..(Len(s) - Len(t)) : SubSeq(s, i + 1, i + Len(t)) = t

\* Date.prototype.toISOString of the instant ms
toISOString(ms) == <<"ISO", ms>>

----------------------------------------------------------------------------
\* Array helpers, as the code uses them.

\* Array.prototype.filter is SelectSeq: the elements that pass, in order.
\* Array.prototype.map is the sequence of the images, [i \in 1..Len(xs) |-> f(xs[i])].

\* The values a taskId argument takes: a number, or a string of digits (the
\* decimal text of the number n)
NumberValue(n) == [type |-> "number", value |-> n]
StringValue(n) == [type |-> "string", value |-> n]

\* task.id === taskId, for the id of a task, which is a number (Date.now()):
\* strict equality holds for a number of the same value only
strictEquals(id, taskId) == taskId.type = "number" /\ taskId.value = id

\* Array.prototype.findIndex on the id: the first index (from 1), or 0 for -1
findIndex(ts, taskId) ==
    IF \E i \in 1..Len(ts) : strictEquals(ts[i].id, taskId)
    THEN CHOOSE i \in 1..Len(ts) :
            /\ strictEquals(ts[i].id, taskId)
            /\ \A j \in 1..(i - 1) : ~strictEquals(ts[j].id, taskId)
    ELSE 0

----------------------------------------------------------------------------
\* JSON text of the list.  A task is written as its key/value pairs in the
\* order of its keys; the text of the list is the sequence of these.

TaskKeys == <<"id", "title", "description", "priority", "completed", "createdAt">>

\* A serialization of the fields a form edits and the flags only (the slip of
\* leaving the creation time out of the text)
stringifyTaskWithoutCreatedAt(t) ==
    [k \in 1..(Len(TaskKeys) - 1) |-> <<TaskKeys[k], t[TaskKeys[k]]>>]

stringifyTask(t) == [k \in 1..Len(TaskKeys) |-> <<TaskKeys[k], t[TaskKeys[k]]>>]

JSONstringify(ts) ==
    [kind |-> "json", val |-> [i \in 1..Len(ts) |-> stringifyTask(ts[i])]]

parseTask(pairs) ==
    [key \in {pairs[k][1] : k \in 1..Len(pairs)} |->
        LET k == CHOOSE k \in 1..Len(pairs) :
                    /\ pairs[k][1] = key
                    /\ \A j \in (k + 1)..Len(pairs) : pairs[j][1] # key
        IN pairs[k][2]]

\* The value JSON.parse yields for a text that is valid JSON but not an
\* array: null for "null", a number for "5", an object for "{}"
NotArrayKinds == {"null", "number", "object"}
NotArray(kind) == <<[notArray |-> kind]>>

\* Array.isArray
isArray(v) == ~(Len(v) = 1 /\ "notArray" \in DOMAIN v[1])

\* JSON.parse of a text that is valid JSON: the list of tasks, or the value
\* that is not an array
JSONparse(b) ==
    IF b.kind = "json"
    THEN [i \in 1..Len(b.val) |-> parseTask(b.val[i])]
    ELSE NotArray(b.kind)

AbsentBlob == [kind |-> "absent", val |-> <<>>]
CorruptBlob == [kind |-> "corrupt", val |-> <<>>]

\* JSON.parse throws a SyntaxError on a text that is not JSON
JSONparseThrows(b) == b.kind = "corrupt"

\* The load without the try/catch (as the constructor of the earlier version
\* has it): the SyntaxError of JSON.parse leaves the call
initUnguarded(b) ==
    IF b.kind = "absent" THEN [tasks |-> <<>>, outcome |-> "return"]
    ELSE IF JSONparseThrows(b)
    THEN [tasks |-> <<>>, outcome |-> "throw", error |-> "SyntaxError"]
    ELSE [tasks |-> JSONparse(b), outcome |-> "return"]

\* TaskManager.init, given the stored entry: the list it leaves in this.tasks
\* and how the call ends
init(b) ==
    IF b.kind = "absent"
    THEN \* storedTasks is null: the conditional yields []
         [tasks |-> <<>>, outcome |-> "return"]
    ELSE IF JSONparseThrows(b)
    THEN \* the catch logs the error and sets this.tasks = []
         [tasks |-> <<>>, outcome |-> "return"]
    ELSE [tasks |-> JSONparse(b), outcome |-> "return"]

----------------------------------------------------------------------------
\* The methods of TaskManager, as functions of the store (ts, b) and the
\* arguments.  writeOk tells whether localStorage.setItem returns (TRUE) or
\* throws (FALSE: quota exceeded, storage unavailable).  Each yields the
\* store after the call, the number of setItem calls made, and the outcome:
\* "return" with ret, or "throw" with the message of the Error.

\* A save that resolves before the entry is written (the slip of scheduling
\* setItem instead of calling it inside the awaited promise)
saveTasksWithoutWrite(ts, b, writeOk) == [blob |-> b, outcome |-> "return"]

\* TaskManager.saveTasks
saveTasks(ts, b, writeOk) ==
    IF writeOk
    THEN [blob |-> JSONstringify(ts), outcome |-> "return"]
    ELSE [blob |-> b, outcome |-> "throw", error |-> "Failed to save tasks"]

\* !title?.trim() with the title left untrimmed (the slip of testing !title)
titleIsEmptyUntrimmed(title) == title = undefined \/ title = <<>>

\* !title?.trim()
titleIsEmpty(title) == title = undefined \/ trim(title) = <<>>

\* TaskManager.addTask; clock is what Date.now() and new Date() read
addTask(ts, b, title, description, priority, clock, writeOk) ==
    IF titleIsEmpty(title)
    THEN [tasks |-> ts, blob |-> b, writes |-> 0,
          outcome |-> "throw", error |-> "Task title cannot be empty"]
    ELSE LET newTask == [id |-> clock,
                         title |-> trim(title),
                         description |-> IF description = undefined
                                         THEN <<>>
                                         ELSE trim(description),
                         priority |-> priority,
                         completed |-> FALSE,
                         createdAt |-> toISOString(clock)]
             newTasks == ts \o <<newTask>>
             saved == saveTasks(newTasks, b, writeOk)
         IN IF saved.outcome = "return"
            THEN [tasks |-> newTasks, blob |-> saved.blob, writes |-> 1,
                  outcome |-> "return", ret |-> newTask]
            ELSE [tasks |-> newTasks, blob |-> saved.blob, writes |-> 1,
                  outcome |-> "throw", error |-> "Failed to add task"]

\* deleteTask with the result of filter not assigned to this.tasks (the slip
\* of calling this.tasks.filter(...) for its effect)
deleteTaskWithoutAssign(ts, b, taskId, writeOk) ==
    LET taskIndex == findIndex(ts, taskId)
        saved == saveTasks(ts, b, writeOk)
    IN IF taskIndex = 0
       THEN [tasks |-> ts, blob |-> b, writes |-> 0,
             outcome |-> "return", ret |-> FALSE]
       ELSE IF saved.outcome = "return"
       THEN [tasks |-> ts, blob |-> saved.blob, writes |-> 1,
             outcome |-> "return", ret |-> TRUE]
       ELSE [tasks |-> ts, blob |-> saved.blob, writes |-> 1,
             outcome |-> "throw", error |-> "Failed to delete task"]

\* TaskManager.deleteTask
deleteTask(ts, b, taskId, writeOk) ==
    LET taskIndex == findIndex(ts, taskId)
        keep(task) == ~strictEquals(task.id, taskId)
        newTasks == SelectSeq(ts, keep)
        saved == saveTasks(newTasks, b, writeOk)
    IN IF taskIndex = 0
       THEN [tasks |-> ts, blob |-> b, writes |-> 0,
             outcome |-> "return", ret |-> FALSE]
       ELSE IF saved.outcome = "return"
       THEN [tasks |-> newTasks, blob |-> saved.blob, writes |-> 1,
             outcome |-> "return", ret |-> TRUE]
       ELSE [tasks |-> newTasks, blob |-> saved.blob, writes |-> 1,
             outcome |-> "throw", error |-> "Failed to delete task"]

\* A property of the updates object: undefined, or a defined value
Undef == [defined |-> FALSE]
Def(v) == [defined |-> TRUE, value |-> v]

\* { ...task, ...Object.fromEntries(Object.entries(updates).filter(value !== undefined)) }
mergeUpdates(task, updates) ==
    LET definedKeys == {k \in DOMAIN updates : updates[k].defined}
    IN [k \in DOMAIN task \cup definedKeys |->
            IF k \in definedKeys THEN updates[k].value ELSE task[k]]

\* TaskManager.updateTask
updateTask(ts, b, taskId, updates, writeOk) ==
    LET taskIndex == findIndex(ts, taskId)
        updatedTask == mergeUpdates(ts[taskIndex], updates)
        replace(task) == IF strictEquals(task.id, taskId) THEN updatedTask ELSE task
        newTasks == [i \in 1..Len(ts) |-> replace(ts[i])]
        saved == saveTasks(newTasks, b, writeOk)
    IN IF taskIndex = 0
       THEN \* "Task not found" is thrown inside the try and caught by it
            [tasks |-> ts, blob |-> b, writes |-> 0,
             outcome |-> "throw", error |-> "Failed to update task"]
       ELSE IF saved.outcome = "return"
       THEN [tasks |-> newTasks, blob |-> saved.blob, writes |-> 1,
             outcome |-> "return", ret |-> updatedTask]
       ELSE [tasks |-> newTasks, blob |-> saved.blob, writes |-> 1,
             outcome |-> "throw", error |-> "Failed to update task"]

\* TaskManager.toggleTaskCompletion
toggleTaskCompletion(ts, b, taskId, writeOk) ==
    LET taskIndex == findIndex(ts, taskId)
        updatedTask == [ts[taskIndex] EXCEPT !.completed = ~ts[taskIndex].completed]
        replace(task) == IF strictEquals(task.id, taskId) THEN updatedTask ELSE task
        newTasks == [i \in 1..Len(ts) |-> replace(ts[i])]
        saved == saveTasks(newTasks, b, writeOk)
    IN IF taskIndex = 0
       THEN \* "Task not found" is thrown inside the try and caught by it
            [tasks |-> ts, blob |-> b, writes |-> 0,
             outcome |-> "throw", error |-> "Failed to toggle task completion"]
       ELSE IF saved.outcome = "return"
       THEN [tasks |-> newTasks, blob |-> saved.blob, writes |-> 1,
             outcome |-> "return", ret |-> updatedTask]
       ELSE [tasks |-> newTasks, blob |-> saved.blob, writes |-> 1,
             outcome |-> "throw", error |-> "Failed to toggle task completion"]

\* The own keys of the filters object literal
OwnFilterKeys ==
    {"completed", "incomplete", "high-priority", "medium-priority", "low-priority"}

\* Keys every object literal inherits from Object.prototype, by what the
\* inherited function does as a filter callback (called with this undefined):
\* toString returns "[object Undefined]", a truthy string; valueOf throws a
\* TypeError (it converts this to an object).
InheritedFilterKeys == {"toString", "valueOf"}

\* TaskManager.filterTasks
filterTasks(ts, filterType) ==
    LET completed(task) == task.completed
        incomplete(task) == ~task.completed
        high(task) == task.priority = "high"
        medium(task) == task.priority = "medium"
        low(task) == task.priority = "low"
        all(task) == TRUE
    IN CASE filterType = "completed" ->
                [outcome |-> "return", ret |-> SelectSeq(ts, completed)]
         [] filterType = "incomplete" ->
                [outcome |-> "return", ret |-> SelectSeq(ts, incomplete)]
         [] filterType = "high-priority" ->
                [outcome |-> "return", ret |-> SelectSeq(ts, high)]
         [] filterType = "medium-priority" ->
                [outcome |-> "return", ret |-> SelectSeq(ts, medium)]
         [] filterType = "low-priority" ->
                [outcome |-> "return", ret |-> SelectSeq(ts, low)]
         [] filterType = "toString" ->
                [outcome |-> "return", ret |-> SelectSeq(ts, all)]
         [] filterType = "valueOf" ->
                IF ts = <<>>
                THEN [outcome |-> "return", ret |-> <<>>]
                ELSE [outcome |-> "throw", error |-> "TypeError"]
         [] OTHER ->
                [outcome |-> "return", ret |-> ts]

\* searchTasks with the term compared as typed (the slip of not lowering it)
searchTasksTermAsTyped(ts, searchTerm) ==
    LET term == IF searchTerm = undefined THEN <<>> ELSE searchTerm
        match(task) ==
            \/ includes(toLowerCase(task.title), term)
            \/ includes(toLowerCase(task.description), term)
    IN SelectSeq(ts, match)

\* TaskManager.searchTasks; the parameter defaults to "" when undefined
searchTasks(ts, searchTerm) ==
    LET term == toLowerCase(IF searchTerm = undefined THEN <<>> ELSE searchTerm)
        match(task) ==
            \/ includes(toLowerCase(task.title), term)
            \/ includes(toLowerCase(task.description), term)
    IN SelectSeq(ts, match)

----------------------------------------------------------------------------
\* The arguments the calls are made with.

Priorities == {"low", "medium", "high"}

\* The (title, description, priority) triples addTask is called with
AddInputs ==
    { <<undefined, undefined, "low">>,
      <<<<" ">>, <<" ", "b">>, "high">>,
      <<<<" ", "a">>, undefined, "low">>,
      <<<<"A", "b", " ">>, <<" ", "b">>, "medium">> }

ValidTask(id, title, description, priority, completed, created) ==
    [id |-> id, title |-> title, description |-> description,
     priority |-> priority, completed |-> completed,
     createdAt |-> toISOString(created)]

\* The updates objects: one undefined field, the edit form's three fields
\* (a white-space title passes the form's "required"), and a partial one
UpdateInputs ==
    { [priority |-> Undef],
      [title |-> Def(<<" ">>), description |-> Def(<<>>), priority |-> Def("high")],
      [title |-> Def(<<"A", "b">>), description |-> Undef] }

FilterTypes == OwnFilterKeys \cup InheritedFilterKeys \cup {"", "bogus"}

\* The search terms: among them a title as it is typed into the add form
\* (" a") and the titles as they are stored ("a", "Ab")
SearchTerms ==
    { undefined, <<>>, <<"B">>, <<"a", "B">>, <<"b", "a">>,
      <<" ", "a">>, <<"a">>, <<"A", "b">> }

\* The taskId arguments of the calls made on the store: numbers
TaskIds == {NumberValue(n) : n \in 0..MaxTime}

\* The entries localStorage may hold when the page is opened
StoredBlobs ==
    { AbsentBlob, CorruptBlob,
      JSONstringify(<<ValidTask(0, <<"A", "b">>, <<"b">>, "medium", TRUE, 0)>>) }

----------------------------------------------------------------------------
\* The state machine.

\* new TaskManager(): init() runs to its end inside the constructor.  No
\* TaskManagerUI is attached: nothing is rendered and no handler runs.
Init ==
    /\ blob \in StoredBlobs
    /\ tasks = init(blob).tasks
    /\ now = 1
    /\ failures = 0
    /\ last = [op |-> "new", outcome |-> init(blob).outcome]
    /\ pending = <<>>
    /\ rendered = <<>>

\* The page is opened again: a new TaskManager loads the stored entry
OpenPage ==
    /\ tasks' = init(blob).tasks
    /\ last' = [op |-> "new", outcome |-> init(blob).outcome]
    /\ UNCHANGED <<blob, now, failures, pending, rendered>>

\* Whether setItem may throw in this step (at most MaxWriteFailures times)
WriteOutcomes == IF failures < MaxWriteFailures THEN {TRUE, FALSE} ELSE {TRUE}

Apply(op, args, r, writeOk) ==
    /\ tasks' = r.tasks
    /\ blob' = r.blob
    /\ failures' = IF r.writes = 1 /\ ~writeOk THEN failures + 1 ELSE failures
    /\ last' = [op |-> op, args |-> args] @@
               [k \in DOMAIN r \ {"tasks", "blob"} |-> r[k]]
    /\ UNCHANGED <<pending, rendered>>

\* Time passes
Tick ==
    /\ now < MaxTime
    /\ now' = now + 1
    /\ last' = [op |-> "tick", outcome |-> "return"]
    /\ UNCHANGED <<tasks, blob, failures, pending, rendered>>

AddTask ==
    \E input \in AddInputs, writeOk \in WriteOutcomes :
        /\ Len(tasks) < MaxTasks
        /\ Apply("add", input,
                 addTask(tasks, blob, input[1], input[2], input[3], now, writeOk),
                 writeOk)
        /\ UNCHANGED now

DeleteTask ==
    \E taskId \in TaskIds, writeOk \in WriteOutcomes :
        /\ Apply("delete", <<taskId>>, deleteTask(tasks, blob, taskId, writeOk), writeOk)
        /\ UNCHANGED now

UpdateTask ==
    \E taskId \in TaskIds, updates \in UpdateInputs, writeOk \in WriteOutcomes :
        /\ Apply("update", <<taskId, updates>>,
                 updateTask(tasks, blob, taskId, updates, writeOk), writeOk)
        /\ UNCHANGED now

ToggleTaskCompletion ==
    \E taskId \in TaskIds, writeOk \in WriteOutcomes :
        /\ Apply("toggle", <<taskId>>,
                 toggleTaskCompletion(tasks, blob, taskId, writeOk), writeOk)
        /\ UNCHANGED now

FilterTasks ==
    \E filterType \in FilterTypes :
        /\ last' = [op |-> "filter", args |-> <<filterType>>] @@
                   filterTasks(tasks, filterType)
        /\ UNCHANGED <<tasks, blob, now, failures, pending, rendered>>

\* The call before this one, when it was an addTask (what a search that
\* follows an add is compared with)
precedingAdd == IF last.op = "add" THEN last ELSE [op |-> "other"]

SearchTasks ==
    \E searchTerm \in SearchTerms :
        /\ last' = [op |-> "search", args |-> <<searchTerm>>,
                    outcome |-> "return", ret |-> searchTasks(tasks, searchTerm),
                    after |-> precedingAdd]
        /\ UNCHANGED <<tasks, blob, now, failures, pending, rendered>>

Next ==
    \/ Tick
    \/ OpenPage
    \/ AddTask
    \/ DeleteTask
    \/ UpdateTask
    \/ ToggleTaskCompletion
    \/ FilterTasks
    \/ SearchTasks

Spec == Init /\ [][Next]_vars

----------------------------------------------------------------------------
\* The handlers of TaskManagerUI.  A handler runs the store method up to the
\* method's first await (which is after the setItem call, made inside the
\* executor of the awaited promise), and waits; its continuation runs later,
\* with what the method returned or threw.  Other handlers may start or
\* continue in between.

\* createTaskElement: data-id="${task.id}", the decimal text of the id
dataId(task) == StringValue(task.id)

\* renderTasks(): one element per task of the list, in order
renderTasks(ts) == [i \in 1..Len(ts) |-> dataId(ts[i])]

Buttons == {"complete-btn", "edit-btn", "delete-btn"}

\* showEditModal: the modal is built for the task that tasks.find yields, and
\* not at all when it yields none; ret is the tasks with a modal open
showEditModal(ts, b, taskId) ==
    LET i == findIndex(ts, taskId)
    IN [tasks |-> ts, blob |-> b, writes |-> 0, outcome |-> "return",
        ret |-> IF i = 0 THEN <<>> ELSE <<ts[i]>>]

\* The call handleTaskActions makes for the button clicked
taskAction(ts, b, button, taskId, writeOk) ==
    CASE button = "complete-btn" -> toggleTaskCompletion(ts, b, taskId, writeOk)
      [] button = "delete-btn" -> deleteTask(ts, b, taskId, writeOk)
      [] button = "edit-btn" -> showEditModal(ts, b, taskId)

\* handleAddTask with the addTask call not awaited (as the earlier version
\* has it): the try block runs on and the rejection is never handled
handleAddTaskNotAwaited(r) ==
    [alert |-> <<>>, reset |-> TRUE, closed |-> FALSE, render |-> TRUE,
     unhandled |-> r.outcome = "throw"]

\* handleAddTask after its await: the form is reset and the list rendered,
\* or the catch alerts the message of the error
handleAddTask(r) ==
    IF r.outcome = "return"
    THEN [alert |-> <<>>, reset |-> TRUE, closed |-> FALSE, render |-> TRUE,
          unhandled |-> FALSE]
    ELSE [alert |-> <<r.error>>, reset |-> FALSE, closed |-> FALSE,
          render |-> FALSE, unhandled |-> FALSE]

\* handleTaskActions after its await
handleTaskActions(r) ==
    IF r.outcome = "return"
    THEN [alert |-> <<>>, reset |-> FALSE, closed |-> FALSE, render |-> TRUE,
          unhandled |-> FALSE]
    ELSE [alert |-> <<r.error>>, reset |-> FALSE, closed |-> FALSE,
          render |-> FALSE, unhandled |-> FALSE]

\* handleSubmit of the edit form after its await: the modal is removed and
\* the list rendered, or the catch alerts
handleSubmit(r) ==
    IF r.outcome = "return"
    THEN [alert |-> <<>>, reset |-> FALSE, closed |-> TRUE, render |-> TRUE,
          unhandled |-> FALSE]
    ELSE [alert |-> <<r.error>>, reset |-> FALSE, closed |-> FALSE,
          render |-> FALSE, unhandled |-> FALSE]

\* new TaskManager(), init(), new TaskManagerUI(): the list is rendered
InitUI ==
    /\ blob \in StoredBlobs
    /\ tasks = init(blob).tasks
    /\ now = 1
    /\ failures = 0
    /\ last = [op |-> "new", outcome |-> init(blob).outcome]
    /\ pending = <<>>
    /\ rendered = renderTasks(tasks)

\* The page is loaded again; the handlers of the old page are gone
LoadPage ==
    /\ tasks' = init(blob).tasks
    /\ last' = [op |-> "new", outcome |-> init(blob).outcome]
    /\ pending' = <<>>
    /\ rendered' = renderTasks(tasks')
    /\ UNCHANGED <<blob, now, failures>>

\* A handler calls a store method: the method runs to its await
Start(handler, event, op, args, r, writeOk) ==
    /\ Len(pending) < MaxPending
    /\ tasks' = r.tasks
    /\ blob' = r.blob
    /\ failures' = IF r.writes = 1 /\ ~writeOk THEN failures + 1 ELSE failures
    /\ pending' = Append(pending,
            [handler |-> handler, op |-> op, args |-> args,
             result |-> [k \in DOMAIN r \ {"tasks", "blob"} |-> r[k]]])
    /\ last' = [op |-> event, args |-> args, outcome |-> "pending"]
    /\ UNCHANGED <<now, rendered>>

\* The add form is submitted
HandleAddTask ==
    \E input \in AddInputs, writeOk \in WriteOutcomes :
        /\ Len(tasks) < MaxTasks
        /\ Start("handleAddTask", "submit", "add", input,
                 addTask(tasks, blob, input[1], input[2], input[3], now, writeOk),
                 writeOk)

\* A button of a rendered task element is clicked; taskId is its dataset.id
HandleTaskActions ==
    \E k \in 1..Len(rendered), button \in Buttons, writeOk \in WriteOutcomes :
        LET taskId == rendered[k]
        IN Start("handleTaskActions", "click", button, <<button, taskId>>,
                 taskAction(tasks, blob, button, taskId, writeOk), writeOk)

\* A waiting handler continues after its await
Settle ==
    \E k \in 1..Len(pending) :
        LET call == pending[k]
            h == IF call.handler = "handleAddTask"
                 THEN handleAddTask(call.result)
                 ELSE handleTaskActions(call.result)
        IN /\ pending' = SubSeq(pending, 1, k - 1) \o
                          SubSeq(pending, k + 1, Len(pending))
           /\ rendered' = IF h.render THEN renderTasks(tasks) ELSE rendered
           /\ last' = [op |-> "settle", handler |-> call.handler,
                       call |-> call.op, args |-> call.args] @@ call.result @@ h
           /\ UNCHANGED <<tasks, blob, now, failures>>

NextUI ==
    \/ Tick
    \/ LoadPage
    \/ HandleAddTask
    \/ HandleTaskActions
    \/ Settle

SpecUI == InitUI /\ [][NextUI]_vars

----------------------------------------------------------------------------
\* The store called with updates objects that name fields the edit form does
\* not have: updateTask takes any object.

FieldUpdates ==
    { [createdAt |-> Def(toISOString(0))],
      [completed |-> Def(FALSE)] }

\* The title of the spec's scenario, add("Buy milk", "", "low")
BuyMilk == <<"B", "u", "y", " ", "m", "i", "l", "k">>

AddBuyMilk ==
    \E writeOk \in WriteOutcomes :
        /\ tasks = <<>>
        /\ Apply("add", <<BuyMilk, <<>>, "low">>,
                 addTask(tasks, blob, BuyMilk, <<>>, "low", now, writeOk), writeOk)
        /\ UNCHANGED now

UpdateFields ==
    \E taskId \in TaskIds, updates \in FieldUpdates, writeOk \in WriteOutcomes :
        /\ Apply("update", <<taskId, updates>>,
                 updateTask(tasks, blob, taskId, updates, writeOk), writeOk)
        /\ UNCHANGED now

NextFields ==
    \/ Tick
    \/ AddTask
    \/ AddBuyMilk
    \/ DeleteTask
    \/ UpdateFields
    \/ ToggleTaskCompletion
    \/ FilterTasks

SpecFields == Init /\ [][NextFields]_vars

----------------------------------------------------------------------------
\* The store opened on any stored entry that is valid JSON, an array or not.

\* Entries that parse, but not to an array: the texts "null", "5", "{}"
NotArrayBlobs == {[kind |-> k, val |-> <<>>] : k \in NotArrayKinds}

InitLoad ==
    /\ blob \in StoredBlobs \cup NotArrayBlobs
    /\ tasks = init(blob).tasks
    /\ now = 1
    /\ failures = 0
    /\ last = [op |-> "new", outcome |-> init(blob).outcome]
    /\ pending = <<>>
    /\ rendered = <<>>

\* A method called while this.tasks is not an array.  addTask checks the
\* title first; then the spread [...this.tasks, newTask], and in the other
\* mutating methods this.tasks.findIndex / find, throw a TypeError inside the
\* try, which rethrows the method's own error before saveTasks is reached.
\* filterTasks returns this.tasks itself when filters[filterType] is falsy
\* and otherwise calls this.tasks.filter, as searchTasks does: a TypeError
\* that nothing catches.
callOnNotArray(op, ts, args) ==
    CASE op = "add" ->
            IF titleIsEmpty(args[1])
            THEN [outcome |-> "throw", error |-> "Task title cannot be empty"]
            ELSE [outcome |-> "throw", error |-> "Failed to add task"]
      [] op = "delete" -> [outcome |-> "throw", error |-> "Failed to delete task"]
      [] op = "update" -> [outcome |-> "throw", error |-> "Failed to update task"]
      [] op = "toggle" ->
            [outcome |-> "throw", error |-> "Failed to toggle task completion"]
      [] op = "filter" ->
            IF args[1] \in OwnFilterKeys \cup InheritedFilterKeys
            THEN [outcome |-> "throw", error |-> "TypeError"]
            ELSE [outcome |-> "return", ret |-> ts]
      [] op = "search" -> [outcome |-> "throw", error |-> "TypeError"]

\* The arguments of the calls, by method
CallInputs ==
    {<<"add", input>> : input \in AddInputs}
        \cup {<<"delete", <<taskId>>>> : taskId \in TaskIds}
        \cup {<<"update", <<taskId, updates>>>> :
                    taskId \in TaskIds, updates \in UpdateInputs}
        \cup {<<"toggle", <<taskId>>>> : taskId \in TaskIds}
        \cup {<<"filter", <<filterType>>>> : filterType \in FilterTypes}
        \cup {<<"search", <<searchTerm>>>> : searchTerm \in SearchTerms}

CallOnNotArray ==
    \E call \in CallInputs :
        /\ ~isArray(tasks)
        /\ last' = [op |-> call[1], args |-> call[2], writes |-> 0] @@
                   callOnNotArray(call[1], tasks, call[2])
        /\ UNCHANGED <<tasks, blob, now, failures, pending, rendered>>

NextLoad ==
    \/ Tick
    \/ OpenPage
    \/ isArray(tasks) /\ AddTask
    \/ isArray(tasks) /\ DeleteTask
    \/ isArray(tasks) /\ UpdateTask
    \/ isArray(tasks) /\ ToggleTaskCompletion
    \/ isArray(tasks) /\ FilterTasks
    \/ isArray(tasks) /\ SearchTasks
    \/ CallOnNotArray

SpecLoad == InitLoad /\ [][NextLoad]_vars

----------------------------------------------------------------------------
\* Vocabulary of the claims, stated without the operators that model the code.

Ids(ts) == {ts[i].id : i \in 1..Len(ts)}

IsBlank(s) == \A i \in 1..Len(s) : s[i] \in WhiteSpace

\* t is s without its leading and trailing white space
IsTrimOf(t, s) ==
    \E i \in 1..(Len(s) + 1), j \in 0..Len(s) :
        /\ t = SubSeq(s, i, j)
        /\ \A k \in 1..Len(s) : (k < i \/ k > j) => s[k] \in WhiteSpace
        /\ t = <<>> \/ (t[1] \notin WhiteSpace /\ t[Len(t)] \notin WhiteSpace)

\* The call the step just made
Called(op) == last'.op = op

\* ts without its i-th element
RemoveAt(ts, i) == SubSeq(ts, 1, i - 1) \o SubSeq(ts, i + 1, Len(ts))

\* The elements of ts at the indexes S, in the order of ts
Subsequence(ts, S) ==
    [k \in 1..Cardinality(S) |->
        ts[CHOOSE i \in S : Cardinality({j \in S : j <= i}) = k]]

\* Two characters that are the same letter when case is ignored
SameLetter(c, d) == c = d \/ {c, d} \in {{"a", "A"}, {"b", "B"}}

\* term occurs in s as a substring when letter case is ignored
ContainsIgnoringCase(s, term) ==
    \E i \in 0..(Len(s) - Len(term)) :
        \A k \in 1..Len(term) : SameLetter(s[i + k], term[k])

\* Whether task passes the filter named filterType, as the claim C9 lists them
Satisfies(task, filterType) ==
    CASE filterType = "completed" -> task.completed = TRUE
      [] filterType = "incomplete" -> task.completed = FALSE
      [] filterType = "high-priority" -> task.priority = "high"
      [] filterType = "medium-priority" -> task.priority = "medium"
      [] filterType = "low-priority" -> task.priority = "low"
      [] OTHER -> TRUE

----------------------------------------------------------------------------
\* C1: no two tasks of the list have the same identifier.
C1_UniqueIds ==
    \A i, j \in 1..Len(tasks) : i # j => tasks[i].id # tasks[j].id

\* C2: every task of the list has a title that is non-empty after trimming.
C2_TitlesNonEmpty ==
    \A i \in 1..Len(tasks) : ~IsBlank(tasks[i].title)

\* The outcome the claim C3 describes for add(title, description, priority)
C3_Success ==
    /\ last'.outcome = "return"
    /\ IsTrimOf(last'.ret.title, last'.args[1])
    /\ IF last'.args[2] = undefined
       THEN last'.ret.description = <<>>
       ELSE IsTrimOf(last'.ret.description, last'.args[2])
    /\ last'.ret.priority = last'.args[3]
    /\ last'.ret.completed = FALSE
    /\ tasks' = Append(tasks, last'.ret)
    /\ blob' = JSONstringify(tasks')

C3_ValidAdd ==
    /\ Called("add")
    /\ last'.args[1] # undefined
    /\ ~IsBlank(last'.args[1])

\* C3 (as stated): add with a title that is non-empty after trimming always
\* succeeds, returns the trimmed task, appends it and persists the new list.
C3_AddAlwaysSucceeds == [][C3_ValidAdd => C3_Success]_vars

\* C3 (amended): add with a title that is non-empty after trimming either
\* succeeds, returning the trimmed task, appending it to the list and
\* persisting the new list, or fails with "Failed to add task", which it
\* does exactly when the write to the backing store fails.
C3_AddSucceedsUnlessWriteFails ==
    [][C3_ValidAdd =>
        \/ C3_Success /\ failures' = failures
        \/ /\ last'.outcome = "throw"
           /\ last'.error = "Failed to add task"
           /\ failures' = failures + 1 ]_vars

C3_Witness ==
    /\ last.op = "add"
    /\ last.outcome = "return"
    /\ last.args[1] = <<"A", "b", " ">>
    /\ last.args[2] = <<" ", "b">>
    /\ last.ret.title = <<"A", "b">>
    /\ Len(tasks) = 2

\* C4: add with a missing, empty or white-space title throws "Task title
\* cannot be empty", leaves the list and the blob as they were and makes no
\* write to the backing store.
C4_BlankTitleRejected ==
    [][(Called("add") /\ (last'.args[1] = undefined \/ IsBlank(last'.args[1]))) =>
        /\ last'.outcome = "throw"
        /\ last'.error = "Task title cannot be empty"
        /\ last'.writes = 0
        /\ tasks' = tasks
        /\ blob' = blob ]_vars

C4_Witness ==
    /\ last.op = "add"
    /\ last.args[1] = <<" ">>
    /\ last.outcome = "throw"
    /\ tasks # <<>>

\* C5: update and toggleCompletion with an id that matches no task fail with
\* an error the caller can tell apart from the error of a failed write (the
\* error the same call gives for a task of the list when the write fails),
\* and leave the list and the blob unchanged.
C5_NotFoundDistinct ==
    /\ (last.op = "update" /\ last.outcome = "throw" /\ last.writes = 0) =>
        \A id \in Ids(tasks) :
            updateTask(tasks, blob, NumberValue(id), last.args[2], FALSE).error
                # last.error
    /\ (last.op = "toggle" /\ last.outcome = "throw" /\ last.writes = 0) =>
        \A id \in Ids(tasks) :
            toggleTaskCompletion(tasks, blob, NumberValue(id), FALSE).error
                # last.error

\* C6: update changes only the fields of the task with the given id whose
\* value in the updates is defined: every other field of it and every other
\* task keep their value, and the list keeps its length and order.
C6_UpdateFrame ==
    [][(Called("update") /\ last'.args[1].value \in Ids(tasks)) =>
        LET taskId == last'.args[1].value
            updates == last'.args[2]
            isSet(k) == k \in DOMAIN updates /\ updates[k].defined
        IN /\ Len(tasks') = Len(tasks)
           /\ \A i \in 1..Len(tasks) : \A k \in DOMAIN tasks[i] :
                (tasks[i].id # taskId \/ ~isSet(k)) =>
                    /\ k \in DOMAIN tasks'[i]
                    /\ tasks'[i][k] = tasks[i][k] ]_vars

\* C7: delete returns true only when a task with the id was in the list, and
\* then that one task is removed and the others remain in order; for an id
\* of no task it returns false, raises nothing and changes neither the list
\* nor the blob; it returns false only then.
C7_DeleteFrame ==
    [][Called("delete") =>
        LET taskId == last'.args[1].value
        IN /\ (last'.outcome = "return" /\ last'.ret = TRUE) =>
                \E i \in 1..Len(tasks) :
                    tasks[i].id = taskId /\ tasks' = RemoveAt(tasks, i)
           /\ taskId \notin Ids(tasks) =>
                /\ last'.outcome = "return" /\ last'.ret = FALSE
                /\ tasks' = tasks /\ blob' = blob
           /\ (last'.outcome = "return" /\ last'.ret = FALSE) =>
                taskId \notin Ids(tasks) ]_vars

\* C8: for every task of the list, two toggleCompletion calls in a row give
\* back the list (and, when the blob held the list, the blob) of before the
\* first call, and one call flips the completed flag of that one task only.
C8_ToggleTwice ==
    \A taskId \in Ids(tasks) :
        LET once == toggleTaskCompletion(tasks, blob, NumberValue(taskId), TRUE)
            twice == toggleTaskCompletion(once.tasks, once.blob,
                                          NumberValue(taskId), TRUE)
        IN /\ twice.tasks = tasks
           /\ blob = JSONstringify(tasks) => twice.blob = blob
           /\ \E i \in 1..Len(tasks) :
                /\ tasks[i].id = taskId
                /\ once.tasks = [tasks EXCEPT ![i].completed = ~tasks[i].completed]

\* C9: filter returns, in list order, exactly the tasks that satisfy the
\* filter, the whole list for an empty or unrecognized filterType, and never
\* changes the list or the blob.
C9_FilterResult ==
    [][Called("filter") =>
        /\ last'.outcome = "return"
        /\ last'.ret = Subsequence(tasks,
                {i \in 1..Len(tasks) : Satisfies(tasks[i], last'.args[1])})
        /\ tasks' = tasks
        /\ blob' = blob ]_vars

\* C10: search returns exactly the tasks whose title or description contains
\* the term as a substring when letter case is ignored, all tasks for the
\* empty term, and never changes the list or the blob.
C10_SearchResult ==
    [][Called("search") =>
        LET term == IF last'.args[1] = undefined THEN <<>> ELSE last'.args[1]
        IN /\ last'.ret = Subsequence(tasks,
                {i \in 1..Len(tasks) :
                    \/ ContainsIgnoringCase(tasks[i].title, term)
                    \/ ContainsIgnoringCase(tasks[i].description, term)})
           /\ term = <<>> => last'.ret = tasks
           /\ tasks' = tasks
           /\ blob' = blob ]_vars

C10_Witness ==
    /\ last.op = "search"
    /\ last.args[1] = <<"a", "B">>
    /\ Len(tasks) = 2
    /\ Len(last.ret) = 1
    /\ last.ret[1].title = <<"A", "b">>

\* The step is a search that immediately follows a successful add
C11_SearchAfterAdd ==
    /\ last.op = "add"
    /\ last.outcome = "return"
    /\ Called("search")

\* C11 (as stated): add(title, description, priority) followed immediately by
\* search(title), with the title as it was passed to add, returns a list of
\* exactly one task, the task just added.
C11_SearchFindsOnlyNewTask ==
    [][(C11_SearchAfterAdd /\ last'.args[1] = last.args[1]) =>
        last'.ret = <<last.ret>> ]_vars

\* C11 (amended): add followed immediately by search of the trimmed title
\* returns a list whose last element is the task just added; the tasks
\* before it are the earlier tasks whose title or description contains the
\* trimmed title when case is ignored, so the list holds the new task alone
\* exactly when there is no such earlier task.
C11_SearchOfTrimmedTitleFindsNewTask ==
    [][(C11_SearchAfterAdd /\ IsTrimOf(last'.args[1], last.args[1])) =>
        LET term == last'.args[1]
            found == last'.ret
            earlier == {i \in 1..(Len(tasks) - 1) :
                          \/ ContainsIgnoringCase(tasks[i].title, term)
                          \/ ContainsIgnoringCase(tasks[i].description, term)}
        IN /\ found # <<>>
           /\ found[Len(found)] = last.ret
           /\ SubSeq(found, 1, Len(found) - 1) = Subsequence(tasks, earlier)
           /\ (found = <<last.ret>>) <=> (earlier = {}) ]_vars

C11_Witness ==
    /\ last.op = "search"
    /\ last.after.op = "add"
    /\ last.after.outcome = "return"
    /\ last.after.args[1] = <<"A", "b", " ">>
    /\ last.args[1] = <<"A", "b">>
    /\ last.ret = <<last.after.ret>>
    /\ Len(tasks) = 2

\* The calls that change the list
Mutators == {"add", "delete", "update", "toggle"}

\* C12: when a call has written the list to the backing store (persist) and
\* a new store instance then loads the entry, the new instance's list has
\* the same tasks in the same order, each with the same six fields.
C12_RoundTrip ==
    [][(/\ last.op \in Mutators
        /\ last.outcome = "return"
        /\ last.writes = 1
        /\ Called("new")) =>
        /\ Len(tasks') = Len(tasks)
        /\ \A i \in 1..Len(tasks) :
              /\ DOMAIN tasks'[i] = DOMAIN tasks[i]
              /\ \A k \in {"id", "title", "description",
                            "priority", "completed", "createdAt"} :
                    tasks'[i][k] = tasks[i][k] ]_vars

C12_Witness ==
    /\ last.op = "new"
    /\ Len(tasks) = 2
    /\ tasks[1].id = 0
    /\ tasks[1].completed = FALSE
    /\ tasks[2].title = <<"a">>

\* C13: construction never fails: it ends without an error for every stored
\* entry, and with the empty list when the entry is absent or is not
\* parsable.
C13_LoadNeverFails ==
    last.op = "new" =>
        /\ last.outcome = "return"
        /\ blob.kind \in {"absent", "corrupt"} => tasks = <<>>

C13_Witness ==
    /\ last.op = "new"
    /\ last.outcome = "return"
    /\ blob = CorruptBlob
    /\ failures = 1
    /\ tasks = <<>>

\* C14: when add, update, toggleCompletion or a delete of an existing id has
\* reported success, the stored entry is the serialization of the list in
\* memory.
C14_PersistedOnSuccess ==
    (/\ last.op \in Mutators
     /\ last.outcome = "return"
     /\ ~(last.op = "delete" /\ last.ret = FALSE)) =>
        /\ last.writes = 1
        /\ blob = JSONstringify(tasks)

C14_Witness ==
    /\ last.op = "update"
    /\ last.outcome = "return"
    /\ failures = 1
    /\ Len(tasks) = 2
    /\ blob = JSONstringify(tasks)

\* C15: when the store method a handler called has thrown (empty title, task
\* not found, failed write), the handler's continuation alerts the message
\* of that error, leaves no rejection unhandled, does not reset the form and
\* does not render; the submit handler of the edit form does the same for
\* every error of updateTask, and keeps the modal open.
C15_ErrorsReachTheUser ==
    [][/\ (Called("settle") /\ last'.outcome = "throw") =>
            /\ last'.alert = <<last'.error>>
            /\ ~last'.unhandled
            /\ ~last'.reset
            /\ rendered' = rendered
       /\ \A taskId \in TaskIds \cup {rendered[k] : k \in 1..Len(rendered)},
             updates \in UpdateInputs, writeOk \in BOOLEAN :
            LET r == updateTask(tasks, blob, taskId, updates, writeOk)
                h == handleSubmit(r)
            IN r.outcome = "throw" =>
                /\ h.alert = <<r.error>>
                /\ ~h.unhandled
                /\ ~h.closed
                /\ ~h.render ]_vars

C15_Witness ==
    /\ last.op = "settle"
    /\ last.handler = "handleAddTask"
    /\ last.outcome = "throw"
    /\ last.error = "Failed to add task"
    /\ last.alert = <<"Failed to add task">>
    /\ ~last.reset
    /\ Len(tasks) = 2
    /\ Len(rendered) = 1

\* C16: no update or toggleCompletion call changes the createdAt of a task
\* of the list, whatever fields the updates name.
C16_CreatedAtImmutable ==
    [][(Called("update") \/ Called("toggle")) =>
        /\ Len(tasks') = Len(tasks)
        /\ \A i \in 1..Len(tasks) : tasks'[i].createdAt = tasks[i].createdAt ]_vars

\* C17: with handlers interleaved at their awaits, (1) a call that wrote the
\* entry wrote the list its own mutation produced, no step of another call
\* coming between its read, its mutation and its write; (2) a task whose add
\* reported success is in the list when the success is reported; (3) when
\* the last waiting handler has continued, the stored entry loads as the
\* list in memory.
C17_NoLostUpdate ==
    [][/\ (Called("submit") \/ Called("click")) =>
            LET call == pending'[Len(pending')]
            IN (call.result.writes = 1 /\ call.result.outcome = "return") =>
                    blob' = JSONstringify(tasks')
       /\ (Called("settle") /\ last'.call = "add" /\ last'.outcome = "return") =>
            \E i \in 1..Len(tasks') : tasks'[i] = last'.ret
       /\ (Called("settle") /\ pending' = <<>>) =>
            init(blob').tasks = tasks' ]_vars

\* The identifiers of the tasks that filter("completed") returns
CompletedIds(ts) == Ids(filterTasks(ts, "completed").ret)

\* The scenario, from the empty store and with every write succeeding:
\* add("Buy milk", "", "low") returns a task with id X; toggleCompletion(X)
\* returns it with completed = true; filter("completed") returns [task X];
\* delete(X) returns true; filter("completed") returns [].
C18_Scenario ==
    tasks = <<>> =>
        LET added == addTask(tasks, blob, BuyMilk, <<>>, "low", now, TRUE)
            X == NumberValue(added.ret.id)
            toggled == toggleTaskCompletion(added.tasks, added.blob, X, TRUE)
            first == filterTasks(toggled.tasks, "completed")
            deleted == deleteTask(toggled.tasks, toggled.blob, X, TRUE)
            second == filterTasks(deleted.tasks, "completed")
        IN /\ added.outcome = "return"
           /\ added.ret.title = BuyMilk
           /\ toggled.outcome = "return"
           /\ toggled.ret = [added.ret EXCEPT !.completed = TRUE]
           /\ first.outcome = "return" /\ first.ret = <<toggled.ret>>
           /\ deleted.outcome = "return" /\ deleted.ret = TRUE
           /\ second.outcome = "return" /\ second.ret = <<>>

\* The step is the call op made with the identifier x
CalledOn(op, x) == Called(op) /\ last'.args[1] = NumberValue(x)

\* A delete of x that returned true leaves no task with id x in
\* filter("completed")
C18_GoneWhenDeleted ==
    \A x \in 0..MaxTime :
        (CalledOn("delete", x) /\ last'.outcome = "return" /\ last'.ret = TRUE) =>
            /\ x \notin Ids(tasks')
            /\ x \notin CompletedIds(tasks')

C19_ClickReachesTask ==
    [][Called("click") =>
        LET button == last'.args[1]
            taskId == last'.args[2]
            call == pending'[Len(pending')]
        IN \A i \in 1..Len(tasks) :
            dataId(tasks[i]) = taskId =>
                /\ strictEquals(tasks[i].id, taskId)
                /\ button = "delete-btn" => tasks[i].id \notin Ids(tasks')
                /\ button = "complete-btn" =>
                        /\ Len(tasks') = Len(tasks)
                        /\ tasks'[i].completed = ~tasks[i].completed
                /\ button = "edit-btn" => call.result.ret = <<tasks[i]>> ]_vars

\* C20: a mutating call whose write to the backing store fails reports an
\* error and leaves the list as it was before the call, so that the list and
\* the stored entry agree after it whenever they agreed before it.
C20_FailedWriteChangesNothing ==
    [][((\E op \in Mutators : Called(op)) /\ failures' # failures) =>
        /\ last'.outcome = "throw"
        /\ tasks' = tasks
        /\ blob = JSONstringify(tasks) => blob' = JSONstringify(tasks') ]_vars

\* C21: after construction, and ever after, this.tasks is a list, for every
\* stored entry, so that no method fails for the reason that it is not: a
\* call throws only what it throws on a list (an empty title, an unknown id,
\* a failed write, C9's inherited filter key on a non-empty list).
C21_TasksIsAList ==
    /\ isArray(tasks)
    /\ (last.op = "add" /\ last.outcome = "throw") =>
            titleIsEmpty(last.args[1]) \/ last.writes = 1
    /\ (last.op = "search") => last.outcome = "return"

====
